---- MODULE Spec2Model ----
(***************************************************************************)
(* Model of wheeltools/tools.py: the permission-scoped wrapper             *)
(* (ensure_permissions, open_readable, open_rw), the archive round trip    *)
(* (dir2zip, zip2dir), the command helper (back_tick) and cmp_contents.    *)
(*                                                                         *)
(* One thread of control runs the library; `pc` is its position.  The      *)
(* filesystem is a map from paths (sequences of components) to nodes.      *)
(* The process owns its files and is not the superuser, so open() needs    *)
(* the owner bits and chmod() of an existing file succeeds.  The archive   *)
(* lives outside the packed tree.  Modification times are carried by the   *)
(* archive library and influence nothing modelled here; they are left out. *)
(***************************************************************************)
EXTENDS Integers, Sequences, FiniteSets, TLC

VARIABLES fs, pc, call, res, log, archive, todo, info, before, bt, fobj, contents, cmpf

vars == <<fs, pc, call, res, log, archive, todo, info, before, bt, fobj, contents, cmpf>>

(***************************************************************************)
(* Mode bits (Python's stat module, as used by the source).                *)
(***************************************************************************)
S_IRUSR == 256
S_IWUSR == 128
S_IFREG == 32768
PERM_MASK == 4095

RECURSIVE BitAnd(_, _)
BitAnd(a, b) ==
  IF a = 0 \/ b = 0 THEN 0
  ELSE (a % 2) * (b % 2) + 2 * BitAnd(a \div 2, b \div 2)

RECURSIVE BitOr(_, _)
BitOr(a, b) ==
  IF a = 0 THEN b
  ELSE IF b = 0 THEN a
  ELSE (IF (a % 2) + (b % 2) > 0 THEN 1 ELSE 0) + 2 * BitOr(a \div 2, b \div 2)

S_IMODE(st_mode) == BitAnd(st_mode, PERM_MASK)

(***************************************************************************)
(* Unbounded Python integers wider than 31 bits are kept as little-endian  *)
(* bit sequences without leading zeros.                                    *)
(***************************************************************************)
RECURSIVE ToBits(_)
ToBits(n) == IF n = 0 THEN <<>> ELSE <<n % 2>> \o ToBits(n \div 2)

RECURSIVE FromBits(_)
FromBits(b) == IF b = <<>> THEN 0 ELSE Head(b) + 2 * FromBits(Tail(b))

Zeros(k) == [i \in 1..k |-> 0]

ShiftLeft(b, k) == IF b = <<>> THEN <<>> ELSE Zeros(k) \o b

ShiftRight(b, k) == IF Len(b) <= k THEN <<>> ELSE SubSeq(b, k + 1, Len(b))

(***************************************************************************)
(* Filesystem.                                                             *)
(***************************************************************************)
Names == <<"a", "b">>

NameSet == {Names[i] : i \in 1..Len(Names)}

in_dir == <<"D">>

out_dir == <<"O">>

NoNode == [kind |-> "none", mode |-> 0, data |-> <<>>]

\* a directory with mode 0o40755
DirNode == [kind |-> "dir", mode |-> 16384 + 493, data |-> <<>>]

FileNode(perms, data) == [kind |-> "file", mode |-> S_IFREG + perms, data |-> data]

exists(f, p) == p \in DOMAIN f /\ f[p].kind # "none"

isfile(f, p) == p \in DOMAIN f /\ f[p].kind = "file"

chmod_perms(f, fname) == S_IMODE(f[fname].mode)

\* os.chmod on an existing path: the permission bits are replaced, the
\* file type bits are kept.
chmod(f, fname, mode) ==
  [f EXCEPT ![fname].mode = (f[fname].mode - S_IMODE(f[fname].mode)) + S_IMODE(mode)]

pjoin(root, file) == Append(root, file)

relpath(path, start) == SubSeq(path, Len(start) + 1, Len(path))

NoExc == [type |-> "none", origin |-> "none"]

Exc(t, o) == [type |-> t, origin |-> o]

\* The builtin open(): the outcome for an owner who is not the superuser.
open(f, fname, mode) ==
  LET need == IF mode = "rb" THEN S_IRUSR ELSE S_IRUSR + S_IWUSR IN
  IF ~exists(f, fname) THEN Exc("FileNotFoundError", "f")
  ELSE IF f[fname].kind = "dir" THEN Exc("IsADirectoryError", "f")
  ELSE IF BitAnd(chmod_perms(f, fname), need) # need THEN Exc("PermissionError", "f")
  ELSE NoExc

(***************************************************************************)
(* ensure_permissions(mode_flags)(f) = modify(filename, ...)               *)
(***************************************************************************)
NoCall ==
  [filename |-> <<>>, flags |-> 0, f |-> "none", arg |-> "none", caller |-> "none",
   m |-> 0, entry |-> NoNode, ran |-> FALSE, atrun |-> NoNode, opexc |-> NoExc,
   exc |-> NoExc, unlinked |-> FALSE, restored |-> "none"]

NewCall(filename, flags, f, arg, caller) ==
  [NoCall EXCEPT !.filename = filename, !.flags = flags, !.f = f, !.arg = arg,
                 !.caller = caller, !.entry = fs[filename]]

\* the condition with its negation dropped
NeedsChange_Inverted(m, mode_flags) == BitAnd(m, mode_flags) # 0

\* line 105 / line 111: the condition guarding both chmod calls
NeedsChange(m, mode_flags) == BitAnd(m, mode_flags) = 0

\* line 106: the mode given to the elevating chmod
ElevatedMode(m, mode_flags) == BitOr(m, mode_flags)

\* the restoring chmod given the elevated mode instead of the saved one
RestoreMode_Elevated(m, mode_flags) == BitOr(m, mode_flags)

\* line 112: the mode given to the restoring chmod
RestoreMode(m, mode_flags) == m

\* a finally clause that ends with a return discards the pending exception
FinallyExc_Swallow(pending, raisedInFinally) ==
  IF raisedInFinally THEN Exc("FileNotFoundError", "chmod") ELSE NoExc

\* lines 107-112: the exception that leaves try/finally, given the one
\* pending when the finally clause starts and whether the clause itself raised
FinallyExc(pending, raisedInFinally) ==
  IF raisedInFinally THEN Exc("FileNotFoundError", "chmod") ELSE pending

\* line 104
ModSnap ==
  /\ pc = "mod_snap"
  /\ call' = [call EXCEPT !.m = IF exists(fs, call.filename)
                                THEN chmod_perms(fs, call.filename)
                                ELSE call.flags]
  /\ pc' = "mod_elev"
  /\ UNCHANGED <<fs, res, log, archive, todo, info, before, bt, fobj, contents, cmpf>>

\* lines 105-106
ModElevate ==
  /\ pc = "mod_elev"
  /\ IF NeedsChange(call.m, call.flags)
     THEN IF exists(fs, call.filename)
          THEN /\ fs' = chmod(fs, call.filename, ElevatedMode(call.m, call.flags))
               /\ log' = Append(log, [ev |-> "chmod", path |-> call.filename,
                                      mode |-> ElevatedMode(call.m, call.flags)])
               /\ pc' = "mod_run"
               /\ UNCHANGED call
          ELSE /\ call' = [call EXCEPT !.exc = Exc("FileNotFoundError", "chmod")]
               /\ pc' = "mod_ret"
               /\ UNCHANGED <<fs, log>>
     ELSE /\ pc' = "mod_run"
          /\ UNCHANGED <<fs, log, call>>
  /\ UNCHANGED <<res, archive, todo, info, before, bt, fobj, contents, cmpf>>

\* What a wrapped function other than open may do with the file.
GBehaviours == {"return", "raise", "unlink_return", "unlink_raise"}

\* line 108 with f = open
ModRunOpen ==
  /\ pc = "mod_run"
  /\ call.f = "open"
  /\ LET e == open(fs, call.filename, call.arg) IN
       /\ call' = [call EXCEPT !.ran = TRUE, !.atrun = fs[call.filename],
                               !.opexc = e, !.exc = e]
       /\ fobj' = IF e = NoExc THEN call.filename ELSE <<>>
       /\ log' = IF e = NoExc
                 THEN Append(log, [ev |-> "open", path |-> call.filename, mode |-> 0])
                 ELSE log
  /\ pc' = "mod_fin"
  /\ UNCHANGED <<fs, res, archive, todo, info, before, bt, contents, cmpf>>

\* line 108 with f a caller-supplied function
ModRunG ==
  /\ pc = "mod_run"
  /\ call.f = "g"
  /\ \E b \in GBehaviours :
       LET e == IF b \in {"raise", "unlink_raise"} THEN Exc("OpError", "f") ELSE NoExc
           del == b \in {"unlink_return", "unlink_raise"} /\ exists(fs, call.filename)
       IN /\ call' = [call EXCEPT !.ran = TRUE, !.atrun = fs[call.filename],
                                  !.opexc = e, !.exc = e, !.unlinked = del]
          /\ fs' = IF del THEN [fs EXCEPT ![call.filename] = NoNode] ELSE fs
  /\ pc' = "mod_fin"
  /\ UNCHANGED <<res, log, archive, todo, info, before, bt, fobj, contents, cmpf>>

\* lines 109-112: the finally clause; an error raised inside it replaces the
\* pending one.
ModFinally ==
  /\ pc = "mod_fin"
  /\ IF NeedsChange(call.m, call.flags)
     THEN IF exists(fs, call.filename)
          THEN /\ fs' = chmod(fs, call.filename, RestoreMode(call.m, call.flags))
               /\ log' = Append(log, [ev |-> "chmod", path |-> call.filename,
                                      mode |-> RestoreMode(call.m, call.flags)])
               /\ call' = [call EXCEPT !.restored = "ok",
                                       !.exc = FinallyExc(call.exc, FALSE)]
          ELSE /\ call' = [call EXCEPT !.exc = FinallyExc(call.exc, TRUE),
                                       !.restored = "failed"]
               /\ UNCHANGED <<fs, log>>
     ELSE /\ call' = [call EXCEPT !.exc = FinallyExc(call.exc, FALSE)]
          /\ UNCHANGED <<fs, log>>
  /\ pc' = "mod_ret"
  /\ UNCHANGED <<res, archive, todo, info, before, bt, fobj, contents, cmpf>>

NoValue == [kind |-> "none"]

NoRes == [op |-> "none", status |-> "none", exc |-> NoExc, value |-> NoValue]

Returned(op, v) == [op |-> op, status |-> "return", exc |-> NoExc, value |-> v]

Raised(op, e) == [op |-> op, status |-> "raise", exc |-> e, value |-> NoValue]

(***************************************************************************)
(* Direct use of the wrappers by a caller.                                 *)
(***************************************************************************)
F1 == pjoin(in_dir, "a")

F2 == pjoin(in_dir, "b")

Masks == {S_IRUSR, S_IWUSR, S_IRUSR + S_IWUSR}

\* open_readable = ensure_permissions(S_IRUSR)(open), line 120
CallOpenReadable ==
  /\ pc = "idle"
  /\ \E fn \in {F1, F2} : call' = NewCall(fn, S_IRUSR, "open", "rb", "api")
  /\ pc' = "mod_snap"
  /\ log' = <<>>
  /\ UNCHANGED <<fs, res, archive, todo, info, before, bt, fobj, contents, cmpf>>

\* open_rw = ensure_permissions(S_IRUSR | S_IWUSR)(open), line 123
CallOpenRw ==
  /\ pc = "idle"
  /\ \E fn \in {F1, F2} : call' = NewCall(fn, S_IRUSR + S_IWUSR, "open", "r+b", "api")
  /\ pc' = "mod_snap"
  /\ log' = <<>>
  /\ UNCHANGED <<fs, res, archive, todo, info, before, bt, fobj, contents, cmpf>>

\* ensure_permissions(mode_flags)(g) for a caller-supplied g, lines 95-116
\* (ensure_writable, line 126, is the case mode_flags = S_IWUSR)
CallDecorated ==
  /\ pc = "idle"
  /\ \E B \in Masks : call' = NewCall(F1, B, "g", "none", "api")
  /\ pc' = "mod_snap"
  /\ log' = <<>>
  /\ UNCHANGED <<fs, res, archive, todo, info, before, bt, fobj, contents, cmpf>>

\* modify returns or raises to a direct caller
ApiReturn ==
  /\ pc = "mod_ret"
  /\ call.caller = "api"
  /\ res' = IF call.exc = NoExc
            THEN Returned("modify", IF call.f = "open"
                                    THEN [kind |-> "handle", path |-> fobj]
                                    ELSE NoValue)
            ELSE Raised("modify", call.exc)
  /\ pc' = "idle"
  /\ UNCHANGED <<fs, call, log, archive, todo, info, before, bt, fobj, contents, cmpf>>

(***************************************************************************)
(* cmp_contents(filename1, filename2), lines 201-221                       *)
(***************************************************************************)
NoCmp == [filename1 |-> <<>>, filename2 |-> <<>>, contents1 |-> <<>>]

\* line 217: open_readable(filename1, "rb")
CmpStart ==
  /\ pc = "idle"
  /\ \E f1 \in {F1, F2}, f2 \in {F1, F2} :
       /\ cmpf' = [filename1 |-> f1, filename2 |-> f2, contents1 |-> <<>>]
       /\ call' = NewCall(f1, S_IRUSR, "open", "rb", "cmp1")
  /\ pc' = "mod_snap"
  /\ log' = <<>>
  /\ UNCHANGED <<fs, res, archive, todo, info, before, bt, fobj, contents>>

\* line 217: the with statement receives the handle, or the error propagates
CmpOpened1 ==
  /\ pc = "mod_ret"
  /\ call.caller = "cmp1"
  /\ IF call.exc = NoExc
     THEN pc' = "cmp_read1" /\ UNCHANGED res
     ELSE pc' = "idle" /\ res' = Raised("cmp_contents", call.exc)
  /\ UNCHANGED <<fs, call, log, archive, todo, info, before, bt, fobj, contents, cmpf>>

\* line 218: contents1 = fobj.read(), through the handle already open
CmpRead1 ==
  /\ pc = "cmp_read1"
  /\ cmpf' = [cmpf EXCEPT !.contents1 = fs[fobj].data]
  /\ log' = Append(log, [ev |-> "read", path |-> fobj, mode |-> 0])
  /\ pc' = "cmp_open2"
  /\ UNCHANGED <<fs, call, res, archive, todo, info, before, bt, fobj, contents>>

\* line 219: open_readable(filename2, "rb")
CmpCall2 ==
  /\ pc = "cmp_open2"
  /\ call' = NewCall(cmpf.filename2, S_IRUSR, "open", "rb", "cmp2")
  /\ pc' = "mod_snap"
  /\ UNCHANGED <<fs, res, log, archive, todo, info, before, bt, fobj, contents, cmpf>>

CmpOpened2 ==
  /\ pc = "mod_ret"
  /\ call.caller = "cmp2"
  /\ IF call.exc = NoExc
     THEN pc' = "cmp_read2" /\ UNCHANGED res
     ELSE pc' = "idle" /\ res' = Raised("cmp_contents", call.exc)
  /\ UNCHANGED <<fs, call, log, archive, todo, info, before, bt, fobj, contents, cmpf>>

\* lines 220-221
CmpRead2 ==
  /\ pc = "cmp_read2"
  /\ contents' = fs[fobj].data
  /\ log' = Append(log, [ev |-> "read", path |-> fobj, mode |-> 0])
  /\ res' = Returned("cmp_contents",
                     [kind |-> "bool", b |-> (cmpf.contents1 = fs[fobj].data)])
  /\ pc' = "idle"
  /\ UNCHANGED <<fs, call, archive, todo, info, before, bt, fobj, cmpf>>

(***************************************************************************)
(* Specification of the permission-scoped wrappers and cmp_contents.       *)
(***************************************************************************)
RelPaths == {<<n>> : n \in NameSet} \cup {<<n, k>> : n \in NameSet, k \in NameSet}

AllPaths == {in_dir, out_dir} \cup {in_dir \o p : p \in RelPaths}
              \cup {out_dir \o p : p \in RelPaths}

\* 0o000 0o100 0o200 0o400 0o600 0o044 0o644 0o755 0o7777
PermSamples == {0, 64, 128, 256, 384, 36, 420, 493, 4095}

\* 0o200 0o644
PermSamples2 == {128, 420}

Contents == {<<104, 105>>, <<121, 111>>}

NoBt == [cmd |-> [is_seq |-> TRUE, argv |-> <<>>], ret_err |-> FALSE, as_str |-> TRUE,
         raise_err |-> "None",
         proc |-> [done |-> TRUE, retcode |-> 0, out |-> <<>>, err |-> <<>>]]

NoArchive == [state |-> "absent", entries |-> <<>>]

NoInfo == [filename |-> <<>>, external_attr |-> <<>>]

InitPerm ==
  /\ \E p1 \in PermSamples, p2 \in PermSamples2, d1 \in Contents, d2 \in Contents :
       fs = [p \in AllPaths |->
               IF p = F1 THEN FileNode(p1, d1)
               ELSE IF p = F2 THEN FileNode(p2, d2)
               ELSE IF p = in_dir THEN DirNode
               ELSE NoNode]
  /\ pc = "idle"
  /\ call = NoCall
  /\ res = NoRes
  /\ log = <<>>
  /\ archive = NoArchive
  /\ todo = <<>>
  /\ info = NoInfo
  /\ before = fs
  /\ bt = NoBt
  /\ fobj = <<>>
  /\ contents = <<>>
  /\ cmpf = NoCmp

NextPerm ==
  \/ CallOpenReadable
  \/ CallOpenRw
  \/ CallDecorated
  \/ ModSnap
  \/ ModElevate
  \/ ModRunOpen
  \/ ModRunG
  \/ ModFinally
  \/ ApiReturn
  \/ CmpStart
  \/ CmpOpened1
  \/ CmpRead1
  \/ CmpCall2
  \/ CmpOpened2
  \/ CmpRead2

SpecPerm == InitPerm /\ [][NextPerm]_vars

(***************************************************************************)
(* back_tick(cmd, ret_err, as_str, raise_err), lines 12-67                 *)
(***************************************************************************)
\* bytes.strip(): ASCII whitespace is removed from both ends
Whitespace == {9, 10, 11, 12, 13, 32}

RECURSIVE LStrip(_)
LStrip(b) == IF b # <<>> /\ Head(b) \in Whitespace THEN LStrip(Tail(b)) ELSE b

RECURSIVE RStrip(_)
RStrip(b) ==
  IF b # <<>> /\ b[Len(b)] \in Whitespace THEN RStrip(SubSeq(b, 1, Len(b) - 1)) ELSE b

Strip(b) == RStrip(LStrip(b))

\* A byte string, and the str that bytes.decode("latin-1") makes of it: one
\* code point per byte, of the same number.
Bytes(b) == [bytes |-> b]

Latin1Decode(b) == [str |-> [i \in 1..Len(b) |-> b[i]]]

\* " ".join(cmd), as the sequence of its pieces
RECURSIVE Join(_)
Join(argv) ==
  IF Len(argv) <= 1 THEN argv ELSE <<Head(argv), " ">> \o Join(Tail(argv))

\* lines 45, 49
CmdStr(cmd) == IF cmd.is_seq THEN Join(cmd.argv) ELSE <<cmd.text>>

\* the default taken to be True whatever ret_err is
EffectiveRaiseErr_AlwaysRaise(raise_err, ret_err) ==
  IF raise_err = "None" THEN TRUE ELSE raise_err = "True"

\* lines 43-44
EffectiveRaiseErr(raise_err, ret_err) ==
  IF raise_err = "None" THEN (IF ret_err THEN FALSE ELSE TRUE) ELSE raise_err = "True"

\* only a process killed by a signal (negative return code) counted as failed
ShouldRaise_Signal(raise_err, retcode) == raise_err /\ retcode < 0

\* line 53
ShouldRaise(raise_err, retcode) == raise_err /\ retcode # 0

\* lines 59-61 and 64-66
Trimmed(stream, as_str) ==
  IF as_str THEN Latin1Decode(Strip(stream)) ELSE Bytes(Strip(stream))

\* The outcome of back_tick given what the child process did.
back_tick(cmd, ret_err, as_str, raise_err, proc) ==
  LET eff == EffectiveRaiseErr(raise_err, ret_err)
      cmd_str == CmdStr(cmd)
  IN IF ~proc.done
     THEN Raised("back_tick",
                 [type |-> "RuntimeError", origin |-> "back_tick",
                  msg |-> [cmd_str |-> cmd_str, text |-> " process did not terminate"]])
     ELSE IF ShouldRaise(eff, proc.retcode)
     THEN Raised("back_tick",
                 [type |-> "RuntimeError", origin |-> "back_tick",
                  msg |-> [cmd_str |-> cmd_str, text |-> " returned code {} with error {}",
                           retcode |-> proc.retcode, err |-> Latin1Decode(proc.err)]])
     ELSE IF ~ret_err
     THEN Returned("back_tick", [kind |-> "out", out |-> Trimmed(proc.out, as_str)])
     ELSE Returned("back_tick", [kind |-> "pair", out |-> Trimmed(proc.out, as_str),
                                 err |-> Trimmed(proc.err, as_str)])

MaxOut == 2

StreamBytes == {32, 65}

Streams == UNION {[1..n -> StreamBytes] : n \in 0..MaxOut}

Cmds == {[is_seq |-> TRUE, argv |-> <<"ls", "-l">>], [is_seq |-> FALSE, text |-> "ls -l"]}

\* What Popen/communicate can hand back: returncode None, or an exit code
\* with the two captured streams.
ExitCodes == {0, 1, 2}

Procs == [done : BOOLEAN, retcode : ExitCodes, out : Streams, err : Streams]

BtInputs ==
  {b \in [cmd : Cmds, ret_err : BOOLEAN, as_str : BOOLEAN,
          raise_err : {"None", "True", "False"}, proc : Procs] :
     ~b.proc.done => (b.proc.retcode = 0 /\ b.proc.out = <<>> /\ b.proc.err = <<>>)}

\* One call of back_tick with the arguments and child process held in bt.
CallBackTick ==
  /\ pc = "bt_call"
  /\ res' = back_tick(bt.cmd, bt.ret_err, bt.as_str, bt.raise_err, bt.proc)
  /\ pc' = "idle"
  /\ UNCHANGED <<fs, call, log, archive, todo, info, before, bt, fobj, contents, cmpf>>

InitCmd ==
  /\ fs = [p \in AllPaths |-> IF p = in_dir THEN DirNode ELSE NoNode]
  /\ pc = "bt_call"
  /\ call = NoCall
  /\ res = NoRes
  /\ log = <<>>
  /\ archive = NoArchive
  /\ todo = <<>>
  /\ info = NoInfo
  /\ before = fs
  /\ bt \in BtInputs
  /\ fobj = <<>>
  /\ contents = <<>>
  /\ cmpf = NoCmp

NextCmd == CallBackTick

SpecCmd == InitCmd /\ [][NextCmd]_vars

(***************************************************************************)
(* dir2zip(in_dir, zip_fname), lines 144-176                               *)
(***************************************************************************)
RECURSIVE SelectNames(_, _, _, _)
SelectNames(fsys, d, kind, names) ==
  IF names = <<>> THEN <<>>
  ELSE LET p == pjoin(d, Head(names))
           rest == SelectNames(fsys, d, kind, Tail(names))
       IN IF p \in DOMAIN fsys /\ fsys[p].kind = kind THEN <<Head(names)>> \o rest
          ELSE rest

\* a listing of the top directory only, as os.listdir would give
Walk_TopOnly(fsys, root) ==
  LET files == SelectNames(fsys, root, "file", Names)
  IN [i \in 1..Len(files) |-> <<root, files[i]>>]

\* line 159: os.walk(in_dir), top down: the (root, file) pairs in the order the
\* two loops visit them; a directory's entries are listed in the order Names
RECURSIVE Walk(_, _)
Walk(fsys, root) ==
  LET files == SelectNames(fsys, root, "file", Names)
      dirs == SelectNames(fsys, root, "dir", Names)
      Sub[i \in 0..Len(dirs)] ==
        IF i = 0 THEN <<>> ELSE Sub[i - 1] \o Walk(fsys, pjoin(root, dirs[i]))
  IN [i \in 1..Len(files) |-> <<root, files[i]>>] \o Sub[Len(dirs)]

\* the stat taken while the file is opened, when owner-read has been added
InStatMode_Elevated(fsys, in_fname) == BitOr(fsys[in_fname].mode, S_IRUSR)

\* line 162: os.stat(in_fname).st_mode
InStatMode(fsys, in_fname) == fsys[in_fname].mode

\* the base name recorded instead of the path relative to in_dir
EntryName_Base(in_fname, dir) == <<in_fname[Len(in_fname)]>>

\* line 165
EntryName(in_fname, dir) == relpath(in_fname, dir)

\* line 171
EntryPerms(st_mode) == BitOr(S_IMODE(st_mode), S_IFREG)

\* the mode shifted by one byte instead of two
ExternalAttr_Shift8(perms) == ShiftLeft(ToBits(perms), 8)

\* line 172
ExternalAttr(perms) == ShiftLeft(ToBits(perms), 16)

\* line 158: ZipFile(zip_fname, "w") creates or truncates the archive
D2zStart ==
  /\ pc = "idle"
  /\ archive' = [state |-> "open", entries |-> <<>>]
  /\ todo' = Walk(fs, in_dir)
  /\ before' = fs
  /\ log' = <<>>
  /\ pc' = "d2z_loop"
  /\ UNCHANGED <<fs, call, res, info, bt, fobj, contents, cmpf>>

\* lines 161-173: build the ZipInfo, then call open_readable(in_fname, "rb")
D2zStat ==
  /\ pc = "d2z_loop"
  /\ todo # <<>>
  /\ LET in_fname == pjoin(Head(todo)[1], Head(todo)[2])
         st_mode == InStatMode(fs, in_fname)
     IN /\ info' = [filename |-> EntryName(in_fname, in_dir),
                    external_attr |-> ExternalAttr(EntryPerms(st_mode))]
        /\ call' = NewCall(in_fname, S_IRUSR, "open", "rb", "d2z")
  /\ pc' = "mod_snap"
  /\ UNCHANGED <<fs, res, log, archive, todo, before, bt, fobj, contents, cmpf>>

\* line 173: the with statement receives the handle, or the error propagates
\* out of dir2zip with the archive left unfinished
D2zOpened ==
  /\ pc = "mod_ret"
  /\ call.caller = "d2z"
  /\ IF call.exc = NoExc
     THEN pc' = "d2z_read" /\ UNCHANGED res
     ELSE pc' = "idle" /\ res' = Raised("dir2zip", call.exc)
  /\ UNCHANGED <<fs, call, log, archive, todo, info, before, bt, fobj, contents, cmpf>>

\* line 174
D2zRead ==
  /\ pc = "d2z_read"
  /\ contents' = fs[fobj].data
  /\ log' = Append(log, [ev |-> "read", path |-> fobj, mode |-> 0])
  /\ pc' = "d2z_write"
  /\ UNCHANGED <<fs, call, res, archive, todo, info, before, bt, fobj, cmpf>>

\* line 175
D2zWrite ==
  /\ pc = "d2z_write"
  /\ archive' = [archive EXCEPT !.entries =
                   Append(@, [filename |-> info.filename,
                              external_attr |-> info.external_attr,
                              data |-> contents,
                              compress_type |-> "ZIP_DEFLATED"])]
  /\ todo' = Tail(todo)
  /\ pc' = "d2z_loop"
  /\ UNCHANGED <<fs, call, res, log, info, before, bt, fobj, contents, cmpf>>

\* line 176
D2zClose ==
  /\ pc = "d2z_loop"
  /\ todo = <<>>
  /\ archive' = [archive EXCEPT !.state = "closed"]
  /\ res' = Returned("dir2zip", NoValue)
  /\ pc' = "idle"
  /\ UNCHANGED <<fs, call, log, todo, info, before, bt, fobj, contents, cmpf>>

(***************************************************************************)
(* zip2dir(zip_fname, out_dir), lines 129-141                              *)
(***************************************************************************)
zip_fname == "A"

\* line 141: the command line
UnzipCmd(zip, dir) == [is_seq |-> TRUE, argv |-> <<"unzip", "-o", "-d", Head(dir), zip>>]

\* The external unzip tool writes every entry below the output directory,
\* with the content and the mode bits the entry records, making directories
\* as needed.
EntryMode(e) == BitAnd(FromBits(ShiftRight(e.external_attr, 16)), PERM_MASK)

MakeDirs(fsys, path) ==
  [p \in DOMAIN fsys |->
     IF Len(p) < Len(path) /\ p = SubSeq(path, 1, Len(p)) /\ fsys[p].kind = "none"
     THEN DirNode ELSE fsys[p]]

RECURSIVE Extract(_, _, _)
Extract(fsys, entries, dir) ==
  IF entries = <<>> THEN fsys
  ELSE LET e == Head(entries)
           path == dir \o e.filename
           made == MakeDirs(fsys, path)
       IN Extract([p \in DOMAIN made |->
                     IF p = path THEN FileNode(EntryMode(e), e.data) ELSE made[p]],
                  Tail(entries), dir)

\* 0 on success; 9 when the archive is missing or is not a zip file; 50 when
\* the disk is full.  The error stream is "E\n" on failure.
UnzipRuns(arch) ==
  IF arch.state = "closed"
  THEN {[done |-> TRUE, retcode |-> 0, out |-> <<65, 10>>, err |-> <<>>],
        [done |-> TRUE, retcode |-> 50, out |-> <<>>, err |-> <<69, 10>>]}
  ELSE {[done |-> TRUE, retcode |-> 9, out |-> <<>>, err |-> <<69, 10>>]}

Zip2dir ==
  /\ pc = "idle"
  /\ \E proc \in UnzipRuns(archive) :
       LET cmd == UnzipCmd(zip_fname, out_dir)
           r == back_tick(cmd, FALSE, TRUE, "None", proc)
       IN /\ bt' = [cmd |-> cmd, ret_err |-> FALSE, as_str |-> TRUE,
                    raise_err |-> "None", proc |-> proc]
          /\ fs' = IF proc.retcode = 0 THEN Extract(fs, archive.entries, out_dir) ELSE fs
          /\ res' = IF r.status = "raise" THEN Raised("zip2dir", r.exc)
                    ELSE Returned("zip2dir", NoValue)
  /\ log' = <<>>
  /\ UNCHANGED <<pc, call, archive, todo, info, before, fobj, contents, cmpf>>

(***************************************************************************)
(* Specification of the archive round trip.                                *)
(***************************************************************************)
MaxFiles == 2

\* 0o644 0o755 0o200 0o000
TreeModes == {420, 493, 128, 0}

Parent(p) == SubSeq(p, 1, Len(p) - 1)

\* The directory trees below in_dir: a set of directories closed under
\* parents, and at most MaxFiles regular files inside them.
Trees ==
  {t \in [dirs : SUBSET RelPaths, files : SUBSET RelPaths] :
     /\ t.dirs \cap t.files = {}
     /\ Cardinality(t.files) <= MaxFiles
     /\ \A p \in t.dirs \cup t.files : Len(p) > 1 => Parent(p) \in t.dirs}

TreeFs(t, attrs) ==
  [p \in AllPaths |->
     IF p \in {in_dir, out_dir} THEN DirNode
     ELSE IF SubSeq(p, 1, 1) = in_dir /\ relpath(p, in_dir) \in t.dirs THEN DirNode
     ELSE IF SubSeq(p, 1, 1) = in_dir /\ relpath(p, in_dir) \in t.files
          THEN FileNode(attrs[relpath(p, in_dir)][1], attrs[relpath(p, in_dir)][2])
     ELSE NoNode]

InitZip ==
  /\ \/ \E t \in Trees : \E attrs \in [t.files -> TreeModes \X Contents] :
          fs = TreeFs(t, attrs)
     \/ \E perms \in 0..PERM_MASK :
          fs = TreeFs([dirs |-> {}, files |-> {<<"a">>}],
                      [p \in {<<"a">>} |-> <<perms, <<104, 105>>>>])
  /\ archive \in {[state |-> "absent", entries |-> <<>>],
                  [state |-> "corrupt", entries |-> <<>>]}
  /\ pc = "idle"
  /\ call = NoCall
  /\ res = NoRes
  /\ log = <<>>
  /\ todo = <<>>
  /\ info = NoInfo
  /\ before = fs
  /\ bt = NoBt
  /\ fobj = <<>>
  /\ contents = <<>>
  /\ cmpf = NoCmp

NextZip ==
  \/ D2zStart
  \/ D2zStat
  \/ ModSnap
  \/ ModElevate
  \/ ModRunOpen
  \/ ModFinally
  \/ D2zOpened
  \/ D2zRead
  \/ D2zWrite
  \/ D2zClose
  \/ Zip2dir

SpecZip == InitZip /\ [][NextZip]_vars

(***************************************************************************)
(* Properties.                                                             *)
(***************************************************************************)
Perms(node) == S_IMODE(node.mode)

\* The wrapper had to add bits to the file it was called on.
Elevated(c) == c.entry.kind = "file" /\ BitAnd(Perms(c.entry), c.flags) = 0

LacksRead(node) == node.kind = "file" /\ BitAnd(Perms(node), S_IRUSR) = 0

UnderInDir(p) == Len(p) > 1 /\ SubSeq(p, 1, 1) = in_dir

\* C1: once a call of a function wrapped by ensure_permissions(B) on an
\* existing file has ended, by return or by exception, the file's mode is the
\* mode it had when the call began, provided the wrapped function did not
\* remove the file and the restoring chmod did not fail.
C1_ModeRestored ==
  (pc \in {"mod_ret", "idle"} /\ call.f # "none" /\ call.entry.kind = "file"
     /\ ~call.unlinked /\ call.restored # "failed")
  => fs[call.filename].mode = call.entry.mode

C1_Witness ==
  /\ pc = "mod_ret"
  /\ call.flags = S_IRUSR + S_IWUSR
  /\ Elevated(call)
  /\ call.ran
  /\ call.opexc # NoExc
  /\ ~call.unlinked
  /\ call.restored = "ok"
  /\ fs[call.filename].mode = call.entry.mode

\* C2: when the wrapped operation starts on an existing file, every bit of
\* the required mask B is set in the file's mode.
C2_AllBitsSetAtRun ==
  (pc = "mod_run" /\ exists(fs, call.filename))
  => BitAnd(chmod_perms(fs, call.filename), call.flags) = call.flags

\* C6 as stated: whenever the wrapped operation failed, the failure that
\* reaches the caller is the wrapped operation's own failure.
C6_OriginalFailureReachesCaller ==
  (pc = "idle" /\ res.op = "modify" /\ call.ran /\ call.opexc # NoExc)
  => (res.status = "raise" /\ res.exc = call.opexc)

\* C6: when the wrapped operation failed, the caller always gets a failure;
\* the restoring chmod has been attempted before that whenever the wrapper had
\* changed the mode; the failure is the wrapped operation's own unless the
\* restoring chmod itself failed, and then it is the chmod's failure.
C6_FailureNotSwallowed ==
  (pc = "idle" /\ res.op = "modify" /\ call.ran /\ call.opexc # NoExc)
  => /\ res.status = "raise"
     /\ Elevated(call) => call.restored \in {"ok", "failed"}
     /\ call.restored = "ok" =>
          log[Len(log)] = [ev |-> "chmod", path |-> call.filename,
                           mode |-> Perms(call.entry)]
     /\ call.restored # "failed" => res.exc = call.opexc
     /\ call.restored = "failed" => res.exc = Exc("FileNotFoundError", "chmod")

C6_Witness ==
  /\ pc = "idle"
  /\ res.op = "modify"
  /\ call.ran
  /\ call.opexc # NoExc
  /\ Elevated(call)
  /\ call.restored = "ok"
  /\ res.status = "raise"
  /\ res.exc = call.opexc

\* C9: reading a file that lacks owner-read through open_readable succeeds
\* and yields the file's content; the events are chmod(m | S_IRUSR), open,
\* chmod(m), read, so the mode is the original one while the content is read
\* and afterwards.
C9_ScopedRead ==
  LET c == call
      m == Perms(c.entry)
      ev3 == <<[ev |-> "chmod", path |-> c.filename, mode |-> m + S_IRUSR],
               [ev |-> "open", path |-> c.filename, mode |-> 0],
               [ev |-> "chmod", path |-> c.filename, mode |-> m]>>
  IN /\ (pc = "mod_ret" /\ c.caller = "cmp1" /\ LacksRead(c.entry)) => c.exc = NoExc
     /\ (pc = "cmp_read1" /\ LacksRead(c.entry))
          => (log = ev3 /\ fs[c.filename].mode = c.entry.mode)
     /\ (pc = "cmp_open2" /\ LacksRead(c.entry))
          => /\ log = Append(ev3, [ev |-> "read", path |-> c.filename, mode |-> 0])
             /\ cmpf.contents1 = c.entry.data
             /\ fs[c.filename].mode = c.entry.mode

C9_Witness ==
  /\ pc = "cmp_open2"
  /\ Perms(call.entry) = 128
  /\ Len(log) = 4
  /\ cmpf.contents1 = call.entry.data
  /\ cmpf.contents1 # <<>>
  /\ Perms(fs[call.filename]) = 128

\* C7: with raise_err unset, a non-zero exit code raises exactly when ret_err
\* is False, and with ret_err True the pair (stdout, stderr) is returned; an
\* explicit raise_err decides by itself; a zero exit code never raises.
C7_RaiseDefault ==
  (pc = "idle" /\ res.op = "back_tick" /\ bt.proc.done)
  => LET raised == res.status = "raise"
         nonzero == bt.proc.retcode # 0
     IN /\ (bt.raise_err = "None" /\ nonzero) => (raised <=> ~bt.ret_err)
        /\ (bt.raise_err = "None" /\ bt.ret_err)
             => /\ res.status = "return"
                /\ res.value.kind = "pair"
                /\ res.value.out = Trimmed(bt.proc.out, bt.as_str)
                /\ res.value.err = Trimmed(bt.proc.err, bt.as_str)
        /\ bt.raise_err = "True" => (raised <=> nonzero)
        /\ bt.raise_err = "False" => ~raised
        /\ ~nonzero => ~raised
        /\ raised => res.exc.type = "RuntimeError"

C7_Witness ==
  /\ pc = "idle"
  /\ res.op = "back_tick"
  /\ bt.raise_err = "None"
  /\ bt.ret_err
  /\ bt.proc.done
  /\ bt.proc.retcode # 0
  /\ res.status = "return"
  /\ res.value.kind = "pair"

\* C8: zip2dir never returns normally when unzip ends with a non-zero exit
\* code: it ends in a RuntimeError carrying the command string, the exit code
\* and the decoded error stream.
C8_UnzipFailureRaises ==
  (res.op = "zip2dir" /\ bt.proc.retcode # 0)
  => /\ res.status = "raise"
     /\ res.exc.type = "RuntimeError"
     /\ res.exc.msg.cmd_str = <<"unzip", " ", "-o", " ", "-d", " ", "O", " ", "A">>
     /\ res.exc.msg.retcode = bt.proc.retcode
     /\ res.exc.msg.err = [str |-> bt.proc.err]

C8_Witness ==
  /\ res.op = "zip2dir"
  /\ archive.state \in {"absent", "corrupt"}
  /\ bt.proc.retcode = 9
  /\ res.status = "raise"
  /\ \A p \in AllPaths : UnderInDir(p) \/ p = in_dir \/ p = out_dir \/ fs[p] = NoNode

InFiles == {rel \in RelPaths : isfile(fs, in_dir \o rel)}

\* C3: after dir2zip of the tree and zip2dir into the empty output directory,
\* the output tree has a file exactly where the source tree has one, with the
\* same content and the same permission bits.
C3_RoundTrip ==
  (pc = "idle" /\ res.op = "zip2dir" /\ res.status = "return")
  => \A rel \in RelPaths :
       /\ isfile(fs, in_dir \o rel) <=> isfile(fs, out_dir \o rel)
       /\ isfile(fs, in_dir \o rel)
            => /\ fs[out_dir \o rel].data = fs[in_dir \o rel].data
               /\ Perms(fs[out_dir \o rel]) = Perms(fs[in_dir \o rel])

C3_Witness ==
  /\ pc = "idle"
  /\ res.op = "zip2dir"
  /\ res.status = "return"
  /\ \E r1 \in InFiles, r2 \in InFiles :
       /\ Len(r1) = 2
       /\ Len(r2) = 1
       /\ LacksRead(fs[in_dir \o r1])
       /\ fs[out_dir \o r1] = fs[in_dir \o r1]
       /\ fs[out_dir \o r2] = fs[in_dir \o r2]

\* C4: after dir2zip succeeds, every regular file under in_dir has exactly
\* one entry, named by its path relative to in_dir and holding its content,
\* and every entry is the entry of such a file.
C4_EntriesMatchFiles ==
  (pc = "idle" /\ res.op = "dir2zip" /\ res.status = "return")
  => LET E == archive.entries IN
       /\ archive.state = "closed"
       /\ \A rel \in InFiles :
            /\ Cardinality({i \in 1..Len(E) : E[i].filename = rel}) = 1
            /\ \A i \in 1..Len(E) :
                 E[i].filename = rel => E[i].data = fs[in_dir \o rel].data
       /\ \A i \in 1..Len(E) : E[i].filename \in InFiles

C4_Witness ==
  /\ pc = "idle"
  /\ res.op = "dir2zip"
  /\ res.status = "return"
  /\ Len(archive.entries) = 2
  /\ \E i \in 1..2 : Len(archive.entries[i].filename) = 2
  /\ \E rel \in RelPaths :
       /\ fs[in_dir \o rel].kind = "dir"
       /\ \A n \in NameSet : Len(rel) = 1 => fs[in_dir \o rel \o <<n>>].kind = "none"

\* C5: the external_attr of every entry is (p | 0o100000) << 16 for the
\* file's permission bits p: the low 16 bits are zero, the value fits in 32
\* bits, and (external_attr >> 16) & 0o7777 is p.
C5_ExternalAttr ==
  \A i \in 1..Len(archive.entries) :
    LET e == archive.entries[i]
        ea == e.external_attr
        p == Perms(before[in_dir \o e.filename])
        hi == FromBits(ShiftRight(ea, 16))
    IN /\ Len(ea) <= 32
       /\ Len(ea) > 16
       /\ \A k \in 1..16 : ea[k] = 0
       /\ hi = p + 32768
       /\ BitAnd(hi, 4095) = p
       /\ p = 420 => hi = 33188

C5_Witness ==
  /\ Len(archive.entries) = 1
  /\ Perms(before[F1]) = 4095
  /\ archive.entries[1].filename = <<"a">>
  /\ FromBits(ShiftRight(archive.entries[1].external_attr, 16)) = 36863

\* C10: the permission bits recorded in each entry are those the file had
\* before dir2zip started, and when dir2zip has returned every path under
\* in_dir is as it was before the call.
C10_SourceUntouched ==
  /\ \A i \in 1..Len(archive.entries) :
       EntryMode(archive.entries[i])
         = Perms(before[in_dir \o archive.entries[i].filename])
  /\ (pc = "idle" /\ res.op = "dir2zip")
       => \A p \in AllPaths : UnderInDir(p) => fs[p] = before[p]

C10_Witness ==
  /\ pc = "idle"
  /\ res.op = "dir2zip"
  /\ res.status = "return"
  /\ \E i \in 1..Len(archive.entries) :
       /\ LacksRead(before[in_dir \o archive.entries[i].filename])
       /\ EntryMode(archive.entries[i]) = 128
       /\ fs[in_dir \o archive.entries[i].filename]
            = before[in_dir \o archive.entries[i].filename]

====
